---- MODULE Spec2Model ----
(***************************************************************************)
(* Layered configuration resolution of comfyui-cloud-storage               *)
(* (profile.py, providers.py) and the prologue every storage node runs     *)
(* (nodes_profile.py, nodes_save.py, nodes_load.py, nodes_browse.py).      *)
(*                                                                         *)
(* Python values are modelled as follows.  A str is a TLA+ string.  A dict *)
(* with string keys and string values (a config, os.environ) is a function *)
(* whose DOMAIN is the set of keys.  A value parsed from profiles.json is  *)
(* a tagged record (JNull, JStr, JArr, JObj); an object keeps its members  *)
(* in document order.  A call that can raise returns a record with an exc  *)
(* field, "" when it returned normally.                                    *)
(***************************************************************************)
EXTENDS Integers, Sequences, FiniteSets, TLC

VARIABLES
    env,      \* os.environ restricted to the COMFY_S3_* variables
    store,    \* the profiles.json file on disk
    last,     \* the call the host made last, with what it returned
    calls,    \* the calls of profile.py in progress, each at its position
    returned, \* the result a finished call of profile.py handed back last
    models_dir, \* the local models directory: model file, sidecar, temp file
    objects     \* the bucket: the object a key names, and what was uploaded

vars == <<env, store, last, calls, returned, models_dir, objects>>

(***************************************************************************)
(* Bounds of the model.                                                    *)
(***************************************************************************)
\* at most this many COMFY_S3_* variables are set at once
MaxEnvVars == 2

\* at most this many calls of profile.py are in progress at once
MaxCalls == 2

\* the models directory and the bucket as the specifications that run no
\* storage node leave them
NoFiles == <<>>

NoObjects == <<>>

(***************************************************************************)
(* JSON documents as json.load returns them.                               *)
(***************************************************************************)
JNull == [type |-> "null"]

JStr(s) == [type |-> "string", str |-> s]

\* an array of n elements; only its emptiness is ever observed
JArr(n) == [type |-> "array", len |-> n]

\* an object; members is the sequence of its key/value pairs in file order
JObj(m) == [type |-> "object", members |-> m]

Member(k, v) == [key |-> k, val |-> v]

EmptyDict == JObj(<<>>)

\* Python truthiness of a parsed value: `if v`, `not named`
Truthy(v) ==
    CASE v.type = "null" -> FALSE
      [] v.type = "string" -> v.str # ""
      [] v.type = "array" -> v.len > 0
      [] v.type = "object" -> Len(v.members) > 0

\* the keys of a parsed object (a dict holds each key once)
DictKeys(d) == {d.members[i].key : i \in 1..Len(d.members)}

\* d[k] of a parsed object: json.load keeps the last of duplicate members
DictItem(d, k) ==
    LET idx == {i \in 1..Len(d.members) : d.members[i].key = k}
        top == CHOOSE i \in idx : \A j \in idx : j <= i
    IN d.members[top].val

\* d.get(k, default) of a parsed object
DictGet(d, k, default) == IF k \in DictKeys(d) THEN DictItem(d, k) ELSE default

\* d.update(u) on dicts of strings: keys of u replace or extend those of d
DictUpdate(d, u) ==
    [k \in DOMAIN d \cup DOMAIN u |-> IF k \in DOMAIN u THEN u[k] ELSE d[k]]

(***************************************************************************)
(* profile.py: the environment layer.                                      *)
(***************************************************************************)
\* suffix after ENV_PREFIX ("COMFY_S3_") -> config key
ENV_KEYS ==
    [PROVIDER |-> "provider", ACCESS_KEY |-> "access_key",
     SECRET_KEY |-> "secret_key", REGION |-> "region", BUCKET |-> "bucket",
     ENDPOINT_URL |-> "endpoint_url", ACCOUNT_ID |-> "account_id",
     PATH_PREFIX |-> "path_prefix"]

EnvNames == DOMAIN ENV_KEYS

\* os.environ.get(ENV_PREFIX + suffix, "")
environ_get(e, suffix) == IF suffix \in DOMAIN e THEN e[suffix] ELSE ""

\* _profile_from_env: only the variables holding a non-empty string
profile_from_env(e) ==
    LET set == {s \in EnvNames : environ_get(e, s) # ""}
        suffixOf(k) == CHOOSE s \in set : ENV_KEYS[s] = k
    IN [k \in {ENV_KEYS[s] : s \in set} |-> environ_get(e, suffixOf(k))]

(***************************************************************************)
(* profile.py: the profile store.                                          *)
(***************************************************************************)
\* _load_profiles on a file: [exc, val, warnings]
load_profiles(file) ==
    CASE file.kind = "absent" ->
            [exc |-> "", val |-> EmptyDict, warnings |-> <<>>]
      [] file.kind \in {"unreadable", "not_json"} ->
            \* OSError from open, JSONDecodeError from json.load: both caught
            [exc |-> "", val |-> EmptyDict, warnings |-> <<"load_failed">>]
      [] file.kind = "json" ->
            IF file.doc.type = "object"
            THEN [exc |-> "", val |-> DictGet(file.doc, "profiles", EmptyDict),
                  warnings |-> <<>>]
            \* data.get on a list, str or None: AttributeError, not caught
            ELSE [exc |-> "AttributeError", val |-> JNull, warnings |-> <<>>]

\* list(d.keys()) of a parsed object: each key once, where it came first
RECURSIVE KeyList(_, _)
KeyList(members, seen) ==
    IF members = <<>> THEN <<>>
    ELSE IF Head(members).key \in seen THEN KeyList(Tail(members), seen)
    ELSE <<Head(members).key>> \o
            KeyList(Tail(members), seen \cup {Head(members).key})

\* load_profile_names on a file: [exc, val, warnings], val the list returned
load_profile_names(file) ==
    LET loaded == load_profiles(file)
    IN  IF loaded.exc # ""
        THEN [exc |-> loaded.exc, val |-> <<>>, warnings |-> loaded.warnings]
        ELSE IF loaded.val.type # "object"
        \* .keys() on a list, a str or None
        THEN [exc |-> "AttributeError", val |-> <<>>,
              warnings |-> loaded.warnings]
        ELSE [exc |-> "", val |-> KeyList(loaded.val.members, {}),
              warnings |-> loaded.warnings]

(***************************************************************************)
(* profile.py: resolve_profile.                                            *)
(***************************************************************************)
DefaultConfig ==
    [provider |-> "AWS S3", access_key |-> "", secret_key |-> "",
     region |-> "", bucket |-> "", endpoint_url |-> "", account_id |-> "",
     path_prefix |-> ""]

Fields == DOMAIN DefaultConfig

ENV_ONLY == "(env vars)"

FROM_PROFILE == "(from profile)"

\* {k: v for k, v in d.items() if v} on a dict of strings
NonEmptyItems(d) ==
    [k \in {j \in DOMAIN d : d[j] # ""} |-> d[k]]

\* faulty variant: every variable that is set is taken, the empty ones too
env_layer_unfiltered(e) ==
    DictUpdate(DefaultConfig, [k \in {ENV_KEYS[s] : s \in DOMAIN e} |->
        environ_get(e, CHOOSE s \in DOMAIN e : ENV_KEYS[s] = k)])

\* lines 86-96: the defaults overlaid with the environment
env_layer(e) == DictUpdate(DefaultConfig, NonEmptyItems(profile_from_env(e)))

\* faulty variant: config.update(named), the filter on empty values dropped
AllItems(named) ==
    [k \in DictKeys(named) |->
        IF DictItem(named, k).type = "string" THEN DictItem(named, k).str
        ELSE ""]

\* {k: v for k, v in named.items() if v} on a parsed profile entry whose
\* truthy values are strings
TruthyItems(named) ==
    [k \in {j \in DictKeys(named) : Truthy(DictItem(named, j))} |->
        DictItem(named, k).str]

\* lines 98-105: the named profile overlaid on config: [exc, config, warnings]
profile_layer(config, file, profile_name) ==
    IF profile_name = "" \/ profile_name = ENV_ONLY
    THEN [exc |-> "", config |-> config, warnings |-> <<>>]
    ELSE
        LET loaded == load_profiles(file)
        IN  IF loaded.exc # ""
            THEN [exc |-> loaded.exc, config |-> config,
                  warnings |-> loaded.warnings]
            ELSE IF loaded.val.type # "object"
            \* profiles.get on a value that is no dict
            THEN [exc |-> "AttributeError", config |-> config,
                  warnings |-> loaded.warnings]
            ELSE
                LET named == DictGet(loaded.val, profile_name, EmptyDict)
                IN  IF ~Truthy(named)
                    THEN [exc |-> "", config |-> config,
                          warnings |-> Append(loaded.warnings, "not_found")]
                    ELSE IF named.type # "object"
                    \* named.items() on a value that is no dict
                    THEN [exc |-> "AttributeError", config |-> config,
                          warnings |-> loaded.warnings]
                    ELSE [exc |-> "",
                          config |-> DictUpdate(config, TruthyItems(named)),
                          warnings |-> loaded.warnings]

\* faulty variant: the sentinel check dropped, `if provider_override:`
provider_layer_no_sentinel(config, provider_override) ==
    IF provider_override # ""
    THEN [config EXCEPT !["provider"] = provider_override]
    ELSE config

\* lines 108-109
provider_layer(config, provider_override) ==
    IF provider_override # "" /\ provider_override # FROM_PROFILE
    THEN [config EXCEPT !["provider"] = provider_override]
    ELSE config

\* faulty variant: the override only fills a bucket no lower layer has set
bucket_layer_fill_only(config, bucket_override) ==
    IF bucket_override # "" /\ config["bucket"] = ""
    THEN [config EXCEPT !["bucket"] = bucket_override]
    ELSE config

\* lines 110-111
bucket_layer(config, bucket_override) ==
    IF bucket_override # ""
    THEN [config EXCEPT !["bucket"] = bucket_override]
    ELSE config

\* faulty variant: the override is stored under a key of the wrong field
path_prefix_layer_wrong_key(config, path_prefix_override) ==
    IF path_prefix_override # ""
    THEN [config EXCEPT !["endpoint_url"] = path_prefix_override]
    ELSE config

\* lines 112-113
path_prefix_layer(config, path_prefix_override) ==
    IF path_prefix_override # ""
    THEN [config EXCEPT !["path_prefix"] = path_prefix_override]
    ELSE config

\* lines 107-113: the per-node widget overrides
override_layer(config, provider_override, bucket_override, path_prefix_override) ==
    path_prefix_layer(
        bucket_layer(provider_layer(config, provider_override), bucket_override),
        path_prefix_override)

\* resolve_profile: [exc, config, warnings]; config is what the call returns
\* when exc = ""
resolve_profile(e, file, profile_name, provider_override, bucket_override, path_prefix_override) ==
    LET named == profile_layer(env_layer(e), file, profile_name)
    IN  IF named.exc # ""
        THEN named
        ELSE [named EXCEPT !.config =
                override_layer(named.config, provider_override,
                               bucket_override, path_prefix_override)]

\* lines 98-115 of resolve_profile, entered with the config lines 86-96 built
resolve_from(config, file, profile_name, provider_override, bucket_override, path_prefix_override) ==
    LET named == profile_layer(config, file, profile_name)
    IN  IF named.exc # ""
        THEN named
        ELSE [named EXCEPT !.config =
                override_layer(named.config, provider_override,
                               bucket_override, path_prefix_override)]

\* resolve_default_profile
resolve_default_profile(e, file) == resolve_profile(e, file, ENV_ONLY, "", "", "")

(***************************************************************************)
(* profile.py: validate_config.                                            *)
(***************************************************************************)
\* _get_profiles_path() outside the host: ~/.comfyui-cloud-storage/profiles.json
\* (inside it, the same file name under the host's system user directory)
PROFILES_PATH == "~/.comfyui-cloud-storage/profiles.json"

\* the messages of the three ValueErrors, as the adjacent literals concatenate
ACCESS_KEY_ERROR == "Cloud storage access key not configured. " \o "Set COMFY_S3_ACCESS_KEY env var, create a profile in " \o PROFILES_PATH \o ", or connect a CloudStorageProfile node."

SECRET_KEY_ERROR == "Cloud storage secret key not configured. " \o "Set COMFY_S3_SECRET_KEY env var or configure a profile."

BUCKET_ERROR == "Cloud storage bucket not configured. " \o "Set COMFY_S3_BUCKET env var or configure a profile."

\* config.get(key) is falsy: the key is absent or holds ""
Missing(config, key) == key \notin DOMAIN config \/ config[key] = ""

\* faulty variant: the bucket is checked before the keys
validate_bucket_first(config) ==
    IF Missing(config, "bucket") THEN BUCKET_ERROR
    ELSE IF Missing(config, "access_key") THEN ACCESS_KEY_ERROR
    ELSE IF Missing(config, "secret_key") THEN SECRET_KEY_ERROR
    ELSE ""

\* faulty variant: the region is required as well
validate_requires_region(config) ==
    IF Missing(config, "access_key") THEN ACCESS_KEY_ERROR
    ELSE IF Missing(config, "secret_key") THEN SECRET_KEY_ERROR
    ELSE IF Missing(config, "bucket") \/ Missing(config, "region")
    THEN BUCKET_ERROR
    ELSE ""

\* validate_config: "" when it returns, else the ValueError's message
validate_config(config) ==
    IF Missing(config, "access_key") THEN ACCESS_KEY_ERROR
    ELSE IF Missing(config, "secret_key") THEN SECRET_KEY_ERROR
    ELSE IF Missing(config, "bucket") THEN BUCKET_ERROR
    ELSE ""

(***************************************************************************)
(* providers.py: the presets and the client factory.                       *)
(***************************************************************************)
\* faulty variant: no preset ever forces path-style addressing
ProviderPreset_never_path_style(endpoint_template, default_region, force_path_style) ==
    [endpoint_template |-> endpoint_template,
     default_region |-> default_region,
     force_path_style |-> FALSE]

\* an endpoint template is the sequence of its literal and placeholder parts
ProviderPreset(endpoint_template, default_region, force_path_style) ==
    [endpoint_template |-> endpoint_template,
     default_region |-> default_region,
     force_path_style |-> force_path_style]

PROVIDER_NAMES ==
    {"AWS S3", "Backblaze B2", "Cloudflare R2", "MinIO", "Wasabi",
     "DigitalOcean Spaces", "GCS (S3 interop)", "Custom"}

PROVIDERS ==
    [name \in PROVIDER_NAMES |->
        CASE name = "AWS S3" -> ProviderPreset(<<>>, "us-east-1", FALSE)
          [] name = "Backblaze B2" ->
                ProviderPreset(<<"https://s3.", "{region}", ".backblazeb2.com">>,
                               "us-west-004", FALSE)
          [] name = "Cloudflare R2" ->
                ProviderPreset(<<"https://", "{account_id}",
                                 ".r2.cloudflarestorage.com">>, "auto", FALSE)
          [] name = "MinIO" ->
                ProviderPreset(<<"http://localhost:9000">>, "us-east-1", TRUE)
          [] name = "Wasabi" ->
                ProviderPreset(<<"https://s3.", "{region}", ".wasabisys.com">>,
                               "us-east-1", FALSE)
          [] name = "DigitalOcean Spaces" ->
                ProviderPreset(<<"https://", "{region}",
                                 ".digitaloceanspaces.com">>, "nyc3", FALSE)
          [] name = "GCS (S3 interop)" ->
                ProviderPreset(<<"https://storage.googleapis.com">>, "auto", FALSE)
          [] name = "Custom" -> ProviderPreset(<<>>, "", FALSE)]

\* faulty variant: an unknown name falls back to the first preset
preset_of_aws_fallback(provider) ==
    IF provider \in DOMAIN PROVIDERS THEN PROVIDERS[provider]
    ELSE PROVIDERS["AWS S3"]

\* PROVIDERS.get(provider, PROVIDERS["Custom"])
preset_of(provider) ==
    IF provider \in DOMAIN PROVIDERS THEN PROVIDERS[provider]
    ELSE PROVIDERS["Custom"]

\* faulty variant: the template is used as written, nothing substituted
RECURSIVE format_template_unformatted(_, _, _)
format_template_unformatted(parts, region, account_id) ==
    IF parts = <<>> THEN ""
    ELSE Head(parts) \o format_template_unformatted(Tail(parts), region, account_id)

\* endpoint_template.format(region=..., account_id=...)
RECURSIVE format_template(_, _, _)
format_template(parts, region, account_id) ==
    IF parts = <<>> THEN ""
    ELSE LET head == Head(parts)
             text == CASE head = "{region}" -> region
                       [] head = "{account_id}" -> account_id
                       [] OTHER -> head
         IN text \o format_template(Tail(parts), region, account_id)

\* the keyword parameters of create_s3_client with their defaults
CREATE_S3_CLIENT_DEFAULTS ==
    [provider |-> "AWS S3", access_key |-> "", secret_key |-> "",
     region |-> "", endpoint_url |-> "", account_id |-> ""]

\* faulty variant: the preset's template is looked at before the explicit
\* endpoint_url
boto3_kwargs_preset_first(a) ==
    LET preset == preset_of(a.provider)
        effective_region ==
            IF a.region # "" THEN a.region ELSE preset.default_region
        effective_endpoint ==
            IF preset.endpoint_template # <<>>
            THEN format_template(preset.endpoint_template, effective_region,
                                 a.account_id)
            ELSE a.endpoint_url
        kwargs ==
            [aws_access_key_id |-> a.access_key,
             aws_secret_access_key |-> a.secret_key,
             region_name |-> effective_region,
             addressing_style |->
                IF preset.force_path_style THEN "path" ELSE "auto"]
    IN  IF effective_endpoint # ""
        THEN DictUpdate(kwargs, [endpoint_url |-> effective_endpoint])
        ELSE kwargs

\* faulty variant: the template is filled with the caller's region as given,
\* the preset's default applied to the client's region only
boto3_kwargs_caller_region(a) ==
    LET preset == preset_of(a.provider)
        effective_region ==
            IF a.region # "" THEN a.region ELSE preset.default_region
        effective_endpoint ==
            IF a.endpoint_url # "" THEN a.endpoint_url
            ELSE IF preset.endpoint_template # <<>>
            THEN format_template(preset.endpoint_template, a.region,
                                 a.account_id)
            ELSE ""
        kwargs ==
            [aws_access_key_id |-> a.access_key,
             aws_secret_access_key |-> a.secret_key,
             region_name |-> effective_region,
             addressing_style |->
                IF preset.force_path_style THEN "path" ELSE "auto"]
    IN  IF effective_endpoint # ""
        THEN DictUpdate(kwargs, [endpoint_url |-> effective_endpoint])
        ELSE kwargs

\* lines 72-100 with the parameters bound: the kwargs handed to boto3.client
boto3_kwargs(a) ==
    LET preset == preset_of(a.provider)
        effective_region ==
            IF a.region # "" THEN a.region ELSE preset.default_region
        effective_endpoint ==
            IF a.endpoint_url # "" THEN a.endpoint_url
            ELSE IF preset.endpoint_template # <<>>
            THEN format_template(preset.endpoint_template, effective_region,
                                 a.account_id)
            ELSE ""
        kwargs ==
            [aws_access_key_id |-> a.access_key,
             aws_secret_access_key |-> a.secret_key,
             region_name |-> effective_region,
             addressing_style |->
                IF preset.force_path_style THEN "path" ELSE "auto"]
    IN  IF effective_endpoint # ""
        THEN DictUpdate(kwargs, [endpoint_url |-> effective_endpoint])
        ELSE kwargs

\* create_s3_client(**kwargs): [exc, client].  The signature takes no
\* **kwargs, so a keyword that is no parameter is a TypeError at the call.
create_s3_client(kwargs) ==
    IF ~(DOMAIN kwargs \subseteq DOMAIN CREATE_S3_CLIENT_DEFAULTS)
    THEN [exc |-> "TypeError", client |-> <<>>]
    ELSE [exc |-> "",
          client |-> boto3_kwargs(DictUpdate(CREATE_S3_CLIENT_DEFAULTS, kwargs))]

(***************************************************************************)
(* nodes_profile.py: the CloudStorageProfile node.                         *)
(***************************************************************************)
\* CloudStorageProfile.execute: resolve, validate, hand the config on.
\* error is "" when the node returned NodeOutput(config), otherwise the
\* exception that left it.
profile_node_execute(e, file, profile, provider, bucket, path_prefix) ==
    LET r == resolve_profile(e, file, profile, provider, bucket, path_prefix)
    IN  [op |-> "CloudStorageProfile.execute",
         profile |-> profile, provider |-> provider, bucket |-> bucket,
         path_prefix |-> path_prefix,
         resolved |-> r,
         error |-> IF r.exc # "" THEN r.exc ELSE validate_config(r.config)]

(***************************************************************************)
(* nodes_save.py, nodes_load.py, nodes_browse.py: the storage nodes.       *)
(***************************************************************************)
FINGERPRINT == "LoadImageFromCloud.fingerprint_inputs"

NodeOps ==
    {"SaveImageToCloud.execute", "SaveVideoToCloud.execute",
     "SaveAudioToCloud.execute", "LoadImageFromCloud.execute", FINGERPRINT,
     "LoadModelFromCloud.execute", "ListBucket.execute",
     "GeneratePresignedURL.execute"}

\* the storage-client method a node calls first once it holds a client
storage_call(node) ==
    CASE node = "SaveImageToCloud.execute" -> "put_object"
      [] node = "SaveVideoToCloud.execute" -> "upload_fileobj"
      [] node = "SaveAudioToCloud.execute" -> "put_object"
      [] node = "LoadImageFromCloud.execute" -> "get_object"
      [] node = FINGERPRINT -> "head_object"
      [] node = "LoadModelFromCloud.execute" -> "head_object"
      [] node = "ListBucket.execute" -> "list_objects_v2"
      [] node = "GeneratePresignedURL.execute" -> "generate_presigned_url"

StorageCalls == {storage_call(node) : node \in NodeOps}

\* the profile input left unconnected (None); like {} it is falsy
NoProfile == <<>>

\* config = profile or resolve_default_profile()
node_config(e, file, profile) ==
    IF DOMAIN profile # {} THEN profile
    ELSE resolve_default_profile(e, file).config

\* what a node has done when it ends: the calls it made in order (steps),
\* the exception that left it (error, "" when it returned) and the client
node_result(node, profile, config, steps, error, client) ==
    [op |-> node, profile |-> profile, config |-> config, steps |-> steps,
     error |-> error, client |-> client]

\* the prologue of every execute: validate_config(config), then
\* create_s3_client(**config), then the node's storage call, whose outcome
\* (remote) is the storage service's
execute_node(node, profile, config, remote) ==
    LET invalid == validate_config(config)
        made == create_s3_client(config)
    IN  IF invalid # ""
        THEN node_result(node, profile, config, <<"validate_config">>,
                         invalid, <<>>)
        ELSE IF made.exc # ""
        THEN node_result(node, profile, config,
                         <<"validate_config", "create_s3_client">>,
                         made.exc, <<>>)
        ELSE node_result(node, profile, config,
                         <<"validate_config", "create_s3_client",
                           storage_call(node)>>,
                         IF remote = "ok" THEN "" ELSE "ValueError",
                         made.client)

\* LoadImageFromCloud.fingerprint_inputs: no validate_config, and every
\* exception inside the try is swallowed: the node returns "" instead
fingerprint_inputs(profile, config, remote) ==
    LET made == create_s3_client(config)
    IN  IF made.exc # ""
        THEN node_result(FINGERPRINT, profile, config,
                         <<"create_s3_client">>, "", <<>>)
        ELSE node_result(FINGERPRINT, profile, config,
                         <<"create_s3_client", storage_call(FINGERPRINT)>>,
                         "", made.client)

\* a storage node run on its profile input
run_node(e, file, node, profile, remote) ==
    IF node = FINGERPRINT
    THEN fingerprint_inputs(profile, node_config(e, file, profile), remote)
    ELSE execute_node(node, profile, node_config(e, file, profile), remote)

(***************************************************************************)
(* The inputs the model draws from.                                        *)
(***************************************************************************)
\* values a COMFY_S3_* variable is set to ("" is a variable set to nothing)
EnvValues ==
    [PROVIDER |-> {"", "Backblaze B2", FROM_PROFILE},
     ACCESS_KEY |-> {"", "envkey"},
     SECRET_KEY |-> {"", "envsecret"},
     REGION |-> {"", "us-west-004"},
     BUCKET |-> {"", "envbucket"},
     ENDPOINT_URL |-> {"", "https://env.example.com"},
     ACCOUNT_ID |-> {"", "envaccount"},
     PATH_PREFIX |-> {"", "env/"}]

ProductionProfile ==
    JObj(<<Member("provider", JStr("Backblaze B2")),
           Member("access_key", JStr("profilekey")),
           Member("secret_key", JStr("profilesecret")),
           Member("bucket", JStr("profilebucket")),
           Member("region", JStr("eu-central-003"))>>)

\* a partial entry: an empty field, a null field, the provider widget's
\* sentinel as a value, and a key that is no Configuration field
StagingProfile ==
    JObj(<<Member("provider", JStr(FROM_PROFILE)),
           Member("bucket", JStr("stagingbucket")),
           Member("region", JStr("")),
           Member("endpoint_url", JNull),
           Member("note", JStr("scratch"))>>)

\* profiles.json as a well-formed document, with one entry that is no object
WellFormedDoc ==
    JObj(<<Member("profiles",
             JObj(<<Member("default", EmptyDict),
                    Member("production", ProductionProfile),
                    Member("staging", StagingProfile),
                    Member("legacy", JStr("production"))>>))>>)

AbsentFile == [kind |-> "absent", doc |-> JNull]

JsonFile(doc) == [kind |-> "json", doc |-> doc]

\* the states of profiles.json
StoreFiles ==
    {AbsentFile,
     [kind |-> "unreadable", doc |-> JNull],
     [kind |-> "not_json", doc |-> JNull],
     JsonFile(JArr(0)),
     JsonFile(JObj(<<Member("version", JStr("1"))>>)),
     JsonFile(JObj(<<Member("profiles", JArr(1))>>)),
     JsonFile(JObj(<<Member("profiles", JNull)>>)),
     JsonFile(WellFormedDoc)}

\* the profile widget: the sentinel, nothing, names of the store, a stranger
ProfileNames ==
    {ENV_ONLY, "", "default", "production", "staging", "legacy", "nonexistent"}

ProviderOverrides == {FROM_PROFILE, "", "MinIO"}

BucketOverrides == {"", "mybucket"}

PathPrefixOverrides == {"", "outputs/"}

Idle == [op |-> "idle"]

(***************************************************************************)
(* The resolver's state machine: the host edits the environment and the    *)
(* profile file between calls, runs the profile node and takes its result. *)
(***************************************************************************)
Init ==
    /\ env = <<>>
    /\ store = AbsentFile
    /\ last = Idle
    /\ calls = <<>>
    /\ returned = Idle
    /\ models_dir = NoFiles
    /\ objects = NoObjects

\* the environment gains or changes a variable
SetEnv(name, value) ==
    /\ last.op = "idle"
    /\ name \in DOMAIN env \/ Cardinality(DOMAIN env) < MaxEnvVars
    /\ environ_get(env, name) # value \/ name \notin DOMAIN env
    /\ env' = [n \in DOMAIN env \cup {name} |->
                  IF n = name THEN value ELSE env[n]]
    /\ UNCHANGED <<store, last, calls, returned, models_dir, objects>>

\* the environment loses a variable
UnsetEnv(name) ==
    /\ last.op = "idle"
    /\ name \in DOMAIN env
    /\ env' = [n \in DOMAIN env \ {name} |-> env[n]]
    /\ UNCHANGED <<store, last, calls, returned, models_dir, objects>>

\* profiles.json is created, rewritten, damaged or removed
WriteStore(file) ==
    /\ last.op = "idle"
    /\ file # store
    /\ store' = file
    /\ UNCHANGED <<env, last, calls, returned, models_dir, objects>>

\* CloudStorageProfile.execute with the widget values given
ProfileExecute(profile, provider, bucket, path_prefix) ==
    /\ last.op = "idle"
    /\ last' = profile_node_execute(env, store, profile, provider, bucket,
                                    path_prefix)
    /\ UNCHANGED <<env, store, calls, returned, models_dir, objects>>

\* the host takes the result (or the exception) of the call
Return ==
    /\ last.op # "idle"
    /\ last' = Idle
    /\ UNCHANGED <<env, store, calls, returned, models_dir, objects>>

Next ==
    \/ \E name \in EnvNames : \E value \in EnvValues[name] : SetEnv(name, value)
    \/ \E name \in EnvNames : UnsetEnv(name)
    \/ \E file \in StoreFiles : WriteStore(file)
    \/ \E profile \in ProfileNames, provider \in ProviderOverrides,
          bucket \in BucketOverrides, path_prefix \in PathPrefixOverrides :
            ProfileExecute(profile, provider, bucket, path_prefix)
    \/ Return

Spec == Init /\ [][Next]_vars

(***************************************************************************)
(* The nodes' state machine: in a fixed environment the host runs the      *)
(* profile node and the storage nodes, wired to its output or not.         *)
(***************************************************************************)
\* the environments the storage nodes are run in
NodeEnvs ==
    {<<>>,
     [ACCESS_KEY |-> "envkey", SECRET_KEY |-> "envsecret"],
     [ACCESS_KEY |-> "envkey", SECRET_KEY |-> "envsecret",
      BUCKET |-> "envbucket"],
     [PROVIDER |-> "Backblaze B2", ACCESS_KEY |-> "envkey",
      SECRET_KEY |-> "envsecret", BUCKET |-> "envbucket",
      PATH_PREFIX |-> "env/"]}

RemoteOutcomes == {"ok", "ClientError"}

InitNodes ==
    /\ env \in NodeEnvs
    /\ store \in {AbsentFile, JsonFile(WellFormedDoc)}
    /\ last = Idle
    /\ calls = <<>>
    /\ returned = Idle
    /\ models_dir = NoFiles
    /\ objects = NoObjects

\* a storage node runs; wired, its profile input is the output of the
\* CloudStorageProfile node that has just returned
NodeExecute(node, wired, remote) ==
    /\ IF wired
       THEN last.op = "CloudStorageProfile.execute" /\ last.error = ""
       ELSE last.op = "idle"
    /\ last' = run_node(env, store, node,
                        IF wired THEN last.resolved.config ELSE NoProfile,
                        remote)
    /\ UNCHANGED <<env, store, calls, returned, models_dir, objects>>

NextNodes ==
    \/ \E profile \in ProfileNames, provider \in ProviderOverrides,
          bucket \in BucketOverrides, path_prefix \in PathPrefixOverrides :
            ProfileExecute(profile, provider, bucket, path_prefix)
    \/ \E node \in NodeOps, wired \in BOOLEAN, remote \in RemoteOutcomes :
            NodeExecute(node, wired, remote)
    \/ Return

SpecNodes == InitNodes /\ [][NextNodes]_vars

(***************************************************************************)
(* The client factory's state machine: create_s3_client is called with     *)
(* keyword arguments of its own signature, any of them left out.           *)
(***************************************************************************)
FACTORY_OP == "create_s3_client"

\* a keyword argument the caller leaves out, so that its default applies
NOT_PASSED == "<not passed>"

\* registered names, and names the registry does not hold: the empty one,
\* the provider widget's sentinel, a registered name in another case
ProviderArgs ==
    PROVIDER_NAMES \cup {"", FROM_PROFILE, "aws s3", "Ceph", NOT_PASSED}

RegionArgs == {"", "eu-central-003", NOT_PASSED}

EndpointArgs == {"", "https://custom.example.com", NOT_PASSED}

AccountArgs == {"", "abc123", NOT_PASSED}

\* the keyword arguments of one call
factory_kwargs(provider, region, endpoint_url, account_id) ==
    LET all == [provider |-> provider, access_key |-> "AK",
                secret_key |-> "SK", region |-> region,
                endpoint_url |-> endpoint_url, account_id |-> account_id]
    IN [k \in {j \in DOMAIN all : all[j] # NOT_PASSED} |-> all[k]]

\* create_s3_client(provider=..., access_key=..., ...)
CreateClient(provider, region, endpoint_url, account_id) ==
    /\ last.op = "idle"
    /\ last' = [op |-> FACTORY_OP,
                kwargs |-> factory_kwargs(provider, region, endpoint_url,
                                          account_id),
                made |-> create_s3_client(
                    factory_kwargs(provider, region, endpoint_url, account_id))]
    /\ UNCHANGED <<env, store, calls, returned, models_dir, objects>>

NextFactory ==
    \/ \E provider \in ProviderArgs, region \in RegionArgs,
          endpoint_url \in EndpointArgs, account_id \in AccountArgs :
            CreateClient(provider, region, endpoint_url, account_id)
    \/ Return

SpecFactory == Init /\ [][NextFactory]_vars

(***************************************************************************)
(* The callers' state machine: several threads of the host call            *)
(* resolve_profile and load_profile_names, their reads of os.environ and   *)
(* of profiles.json interleaved; the host edits the environment and the    *)
(* file while no call is in progress.                                      *)
(***************************************************************************)
RESOLVE_OP == "resolve_profile"

LIST_OP == "load_profile_names"

CallIds == 1..MaxCalls

\* a thread that is in no call
NoCall == [pc |-> "none"]

\* the variable the host edits between calls
CallEnvNames == {"BUCKET"}

CallStores ==
    {AbsentFile, [kind |-> "not_json", doc |-> JNull], JsonFile(JArr(0)),
     JsonFile(WellFormedDoc)}

\* the arguments of the resolve_profile calls made
CallArgs ==
    {[profile |-> ENV_ONLY, provider |-> FROM_PROFILE, bucket |-> "",
      path_prefix |-> ""],
     [profile |-> "production", provider |-> "MinIO", bucket |-> "",
      path_prefix |-> "outputs/"],
     [profile |-> "staging", provider |-> FROM_PROFILE, bucket |-> "",
      path_prefix |-> ""]}

InitCalls ==
    /\ env = <<>>
    /\ store = AbsentFile
    /\ last = Idle
    /\ calls = [id \in CallIds |-> NoCall]
    /\ returned = Idle
    /\ models_dir = NoFiles
    /\ objects = NoObjects

\* no call is in progress
Quiet == \A id \in CallIds : calls[id] = NoCall

HostSetsEnv(name, value) == Quiet /\ SetEnv(name, value)

HostUnsetsEnv(name) == Quiet /\ UnsetEnv(name)

HostWritesStore(file) == Quiet /\ WriteStore(file)

\* resolve_profile lines 86-96: a new config dict, overlaid with the
\* environment as it is read now
EnterResolve(id, args) ==
    /\ calls[id] = NoCall
    /\ calls' = [calls EXCEPT ![id] =
                    [pc |-> "load_profiles", op |-> RESOLVE_OP, args |-> args,
                     config |-> env_layer(env)]]
    /\ UNCHANGED <<env, store, last, returned, models_dir, objects>>

\* faulty variant: results are memoised on the arguments; a call with the
\* arguments of the call that returned last gets that call's result
FinishResolve_memoised(id) ==
    /\ calls[id].pc = "load_profiles"
    /\ calls[id].op = RESOLVE_OP
    /\ calls' = [calls EXCEPT ![id] =
                    [pc |-> "returned", op |-> RESOLVE_OP,
                     args |-> calls[id].args,
                     result |->
                        IF returned # Idle /\ returned.op = RESOLVE_OP
                            /\ returned.args = calls[id].args
                        THEN returned.result
                        ELSE resolve_from(calls[id].config, store,
                                          calls[id].args.profile,
                                          calls[id].args.provider,
                                          calls[id].args.bucket,
                                          calls[id].args.path_prefix)]]
    /\ UNCHANGED <<env, store, last, returned, models_dir, objects>>

\* faulty variant: config is one module-level dict updated in place, so
\* what this call writes into it is what every call in progress holds
FinishResolve_shared_config(id) ==
    /\ calls[id].pc = "load_profiles"
    /\ calls[id].op = RESOLVE_OP
    /\ LET result == resolve_from(calls[id].config, store,
                                  calls[id].args.profile,
                                  calls[id].args.provider,
                                  calls[id].args.bucket,
                                  calls[id].args.path_prefix)
       IN calls' =
            [j \in CallIds |->
                IF j = id
                THEN [pc |-> "returned", op |-> RESOLVE_OP,
                      args |-> calls[id].args, result |-> result]
                ELSE IF calls[j].pc = "load_profiles" /\ calls[j].op = RESOLVE_OP
                THEN [calls[j] EXCEPT !.config = result.config]
                ELSE calls[j]]
    /\ UNCHANGED <<env, store, last, returned, models_dir, objects>>

\* resolve_profile lines 98-115: the file is read now if a profile is
\* named, the overrides are applied and the config is returned
FinishResolve(id) ==
    /\ calls[id].pc = "load_profiles"
    /\ calls[id].op = RESOLVE_OP
    /\ calls' = [calls EXCEPT ![id] =
                    [pc |-> "returned", op |-> RESOLVE_OP,
                     args |-> calls[id].args,
                     result |-> resolve_from(calls[id].config, store,
                                             calls[id].args.profile,
                                             calls[id].args.provider,
                                             calls[id].args.bucket,
                                             calls[id].args.path_prefix)]]
    /\ UNCHANGED <<env, store, last, returned, models_dir, objects>>

\* load_profile_names is entered
EnterListNames(id) ==
    /\ calls[id] = NoCall
    /\ calls' = [calls EXCEPT ![id] =
                    [pc |-> "load_profiles", op |-> LIST_OP, args |-> <<>>]]
    /\ UNCHANGED <<env, store, last, returned, models_dir, objects>>

\* load_profile_names reads the file and returns the names
FinishListNames(id) ==
    /\ calls[id].pc = "load_profiles"
    /\ calls[id].op = LIST_OP
    /\ calls' = [calls EXCEPT ![id] =
                    [pc |-> "returned", op |-> LIST_OP, args |-> <<>>,
                     result |-> load_profile_names(store)]]
    /\ UNCHANGED <<env, store, last, returned, models_dir, objects>>

\* the caller takes what its call returned or raised
TakeResult(id) ==
    /\ calls[id].pc = "returned"
    /\ returned' = [op |-> calls[id].op, args |-> calls[id].args,
                    result |-> calls[id].result]
    /\ calls' = [calls EXCEPT ![id] = NoCall]
    /\ UNCHANGED <<env, store, last, models_dir, objects>>

NextCalls ==
    \/ \E name \in CallEnvNames : \E value \in EnvValues[name] :
            HostSetsEnv(name, value)
    \/ \E name \in CallEnvNames : HostUnsetsEnv(name)
    \/ \E file \in CallStores : HostWritesStore(file)
    \/ \E id \in CallIds, args \in CallArgs : EnterResolve(id, args)
    \/ \E id \in CallIds : FinishResolve(id)
    \/ \E id \in CallIds : EnterListNames(id)
    \/ \E id \in CallIds : FinishListNames(id)
    \/ \E id \in CallIds : TakeResult(id)

SpecCalls == InitCalls /\ [][NextCalls]_vars

(***************************************************************************)
(* nodes_save.py, nodes_load.py, nodes_browse.py: what each storage node   *)
(* does with its client.  A request is the storage-client call with the    *)
(* bucket and the key or prefix it names.                                  *)
(***************************************************************************)
\* text.replace(old, new)
RECURSIVE str_replace(_, _, _)
str_replace(text, old, new) ==
    IF Len(text) < Len(old) THEN text
    ELSE IF SubSeq(text, 1, Len(old)) = old
    THEN new \o str_replace(SubSeq(text, Len(old) + 1, Len(text)), old, new)
    ELSE SubSeq(text, 1, 1) \o str_replace(SubSeq(text, 2, Len(text)), old, new)

\* text.startswith(head)
startswith(text, head) ==
    Len(head) <= Len(text) /\ SubSeq(text, 1, Len(head)) = head

\* os.path.basename(path): what follows the last "/"
RECURSIVE basename(_)
basename(path) ==
    IF \A i \in 1..Len(path) : SubSeq(path, i, i) # "/" THEN path
    ELSE basename(SubSeq(path, 2, Len(path)))

\* text.strip() for the white space a sidecar file can hold
RECURSIVE strip(_)
strip(text) ==
    IF text = "" THEN text
    ELSE IF SubSeq(text, 1, 1) \in {" ", "\n"}
    THEN strip(SubSeq(text, 2, Len(text)))
    ELSE IF SubSeq(text, Len(text), Len(text)) \in {" ", "\n"}
    THEN strip(SubSeq(text, 1, Len(text) - 1))
    ELSE text

\* config.get("path_prefix", "")
path_prefix_of(config) ==
    IF "path_prefix" \in DOMAIN config THEN config["path_prefix"] ELSE ""

\* _build_key
build_key(config, prefix, filename, batch_idx, ext) ==
    path_prefix_of(config) \o prefix
        \o str_replace(filename, "%batch_num%", ToString(batch_idx))
        \o "." \o ext

\* LoadImageFromCloud.execute line 58: a key with a leading "/" is taken as
\* it is, any other key follows the path_prefix
load_image_key(config, key) ==
    IF ~startswith(key, "/") THEN path_prefix_of(config) \o key ELSE key

\* lines 96, 152 of nodes_load.py and 52, 111 of nodes_browse.py
prefixed_key(config, key) == path_prefix_of(config) \o key

Request(call, bucket, key) == [call |-> call, bucket |-> bucket, key |-> key]

\* how a storage-client call ends: it returns, botocore raises ClientError
\* (an error response of the service), or another exception (no connection)
Faults == {"ok", "ClientError", "EndpointConnectionError"}

\* an object of the bucket: the version of its bytes and its ETag header
\* ("" when the service sends none)
Object(version, etag) == [version |-> version, etag |-> etag]

\* client.head_object / get_object on the bucket: [exc, object]
fetch(objs, key, fault) ==
    IF fault # "ok" THEN [exc |-> fault, object |-> Object("", "")]
    ELSE IF key \notin DOMAIN objs
    \* 404, NoSuchKey: an error response
    THEN [exc |-> "ClientError", object |-> Object("", "")]
    ELSE [exc |-> "", object |-> objs[key]]

\* how a node's work with its client ends: the requests sent in order, the
\* exception that left it ("" when it returned), its output, and the models
\* directory and the bucket as it leaves them
Ended(requests, error, output, files, objs) ==
    [requests |-> requests, error |-> error, output |-> output,
     files |-> files, objs |-> objs]

\* `except ClientError as e: raise ValueError(...) from e`
wrapped(exc) == IF exc = "ClientError" THEN "ValueError" ELSE exc

\* LoadImageFromCloud.execute lines 55-88
load_image_body(config, key, files, objs, fault) ==
    LET full_key == load_image_key(config, key)
        got == fetch(objs, full_key, fault)
        sent == <<Request("get_object", config["bucket"], full_key)>>
    IN  IF got.exc # ""
        THEN Ended(sent, wrapped(got.exc), "", files, objs)
        ELSE Ended(sent, "", got.object.version, files, objs)

\* LoadImageFromCloud.fingerprint_inputs lines 96-100; every exception
\* ends in return ""
fingerprint_body(config, key, files, objs, fault) ==
    IF "bucket" \notin DOMAIN config
    THEN Ended(<<>>, "", "", files, objs)
    ELSE
        LET full_key == prefixed_key(config, key)
            got == fetch(objs, full_key, fault)
            sent == <<Request("head_object", config["bucket"], full_key)>>
        IN  IF got.exc # ""
            THEN Ended(sent, "", "", files, objs)
            ELSE Ended(sent, "", got.object.etag, files, objs)

\* ListBucket.execute lines 50-69
list_bucket_body(config, prefix, files, objs, fault) ==
    LET full_prefix == prefixed_key(config, prefix)
        sent == <<Request("list_objects_v2", config["bucket"], full_prefix)>>
    IN  IF fault # "ok"
        THEN Ended(sent, wrapped(fault), "", files, objs)
        ELSE Ended(sent, "",
                   {k \in DOMAIN objs : startswith(k, full_prefix)},
                   files, objs)

\* GeneratePresignedURL.execute lines 109-123
presign_body(config, key, files, objs, fault) ==
    LET full_key == prefixed_key(config, key)
        sent == <<Request("generate_presigned_url", config["bucket"], full_key)>>
    IN  IF fault # "ok"
        THEN Ended(sent, wrapped(fault), "", files, objs)
        ELSE Ended(sent, "", "https://" \o config["bucket"] \o "/" \o full_key,
                   files, objs)

\* the bucket after an upload under key
put(objs, key) ==
    [k \in DOMAIN objs \cup {key} |->
        IF k = key THEN Object("uploaded", "etag-uploaded") ELSE objs[k]]

\* SaveVideoToCloud.execute lines 198-229 and SaveAudioToCloud.execute lines
\* 260-284: one upload under path_prefix + key_prefix + filename + "." + ext
save_media_body(call, config, key_prefix, filename, ext, files, objs, fault) ==
    LET key == path_prefix_of(config) \o key_prefix \o filename \o "." \o ext
        sent == <<Request(call, config["bucket"], key)>>
    IN  IF fault # "ok"
        THEN Ended(sent, wrapped(fault), <<>>, files, objs)
        ELSE Ended(sent, "", <<"s3://" \o config["bucket"] \o "/" \o key>>,
                   files, put(objs, key))

\* SaveImageToCloud.execute lines 138-165: the images of the batch are
\* uploaded in order; the upload of image fail_at ends as fault says
save_images_body(config, count, key_prefix, filename, format, files, objs, fail_at, fault) ==
    LET key(i) == build_key(config, key_prefix, filename, i, format)
        failed == fault # "ok" /\ fail_at < count
        done == IF failed THEN fail_at ELSE count
        sent == [i \in 1..(IF failed THEN done + 1 ELSE done) |->
                    Request("put_object", config["bucket"], key(i - 1))]
        stored == [k \in DOMAIN objs \cup {key(i) : i \in 0..(done - 1)} |->
                     IF k \in {key(i) : i \in 0..(done - 1)}
                     THEN Object("uploaded", "etag-uploaded") ELSE objs[k]]
    IN  IF failed
        THEN Ended(sent, wrapped(fault), <<>>, files, stored)
        ELSE Ended(sent, "",
                   [i \in 1..count |->
                       "s3://" \o config["bucket"] \o "/" \o key(i - 1)],
                   files, stored)

\* the files of the models directory: path -> content
write_file(files, path, text) ==
    [f \in DOMAIN files \cup {path} |-> IF f = path THEN text ELSE files[f]]

remove_file(files, path) == [f \in DOMAIN files \ {path} |-> files[f]]

\* os.path.join(directory, name)
path_join(directory, name) == directory \o "/" \o name

\* client.download_file into temp_path: the bytes of the object as the
\* bucket holds it then, or an exception; partial tells whether a download
\* that failed has left a part of the file at temp_path
download_file(files, objs_then, key, temp_path, fault, partial) ==
    LET got == fetch(objs_then, key, fault)
    IN  [exc |-> got.exc,
         files |-> IF got.exc = ""
                   THEN write_file(files, temp_path, got.object.version)
                   ELSE IF partial
                   THEN write_file(files, temp_path, "partial")
                   ELSE files]

\* os.replace(src, dst)
os_replace(files, src, dst) ==
    write_file(remove_file(files, src), dst, files[src])

\* faulty variant: the temp file of a failed download is left behind
cleanup_keeps_temp(files, temp_path) == files

\* lines 213-216: `if os.path.exists(temp_path): os.remove(temp_path)`
cleanup(files, temp_path) == remove_file(files, temp_path)

\* LoadModelFromCloud.execute lines 151-224.  faults tells how the head of
\* the cache check, the head before the download and the download end;
\* objs_then is the bucket at the time of the download.
load_model_body(config, key, force_redownload, model_paths, files, objs, faults, objs_then) ==
    LET bucket == config["bucket"]
        full_key == prefixed_key(config, key)
        filename == basename(full_key)
        local_path == path_join(model_paths[1], filename)
        etag_path == local_path \o ".s3etag"
        temp_path == local_path \o ".download"
        check == local_path \in DOMAIN files /\ ~force_redownload
        head_request == Request("head_object", bucket, full_key)
        remote_head == fetch(objs, full_key, faults.cache_head)
        checked == IF check THEN <<head_request>> ELSE <<>>
        cached ==
            /\ check
            /\ \/ remote_head.exc = "ClientError"
               \/ /\ remote_head.exc = ""
                  /\ etag_path \in DOMAIN files
                  /\ strip(files[etag_path]) = remote_head.object.etag
        head == fetch(objs, full_key, faults.head)
        requested == checked \o <<head_request>>
        downloading ==
            requested \o <<Request("download_file", bucket, full_key)>>
        download ==
            download_file(files, objs_then, full_key, temp_path,
                          faults.download, faults.partial)
        replaced == os_replace(download.files, temp_path, local_path)
    IN  IF model_paths = <<>>
        THEN Ended(<<>>, "ValueError", "", files, objs)
        ELSE IF cached
        THEN Ended(checked, "", filename, files, objs)
        ELSE IF check /\ remote_head.exc # ""
        \* no ClientError: it is not caught
        THEN Ended(checked, remote_head.exc, "", files, objs)
        ELSE IF head.exc # ""
        THEN Ended(requested, wrapped(head.exc), "", files, objs)
        ELSE IF download.exc # ""
        THEN Ended(downloading, download.exc, "",
                   cleanup(download.files, temp_path), objs_then)
        ELSE Ended(downloading, "", filename,
                   IF head.object.etag # ""
                   THEN write_file(replaced, etag_path, head.object.etag)
                   ELSE replaced,
                   objs_then)

\* the first lines of every execute: validate_config(config), then
\* create_s3_client(**config); "" when both returned, otherwise the
\* exception that left the node
prologue(config) ==
    IF validate_config(config) # "" THEN validate_config(config)
    ELSE create_s3_client(config).exc

LOAD_IMAGE == "LoadImageFromCloud.execute"

LOAD_MODEL == "LoadModelFromCloud.execute"

SAVE_IMAGE == "SaveImageToCloud.execute"

SAVE_VIDEO == "SaveVideoToCloud.execute"

SAVE_AUDIO == "SaveAudioToCloud.execute"

LIST_BUCKET == "ListBucket.execute"

PRESIGN == "GeneratePresignedURL.execute"

\* LoadImageFromCloud.execute
load_image_execute(config, key, files, objs, fault) ==
    IF prologue(config) # ""
    THEN Ended(<<>>, prologue(config), "", files, objs)
    ELSE load_image_body(config, key, files, objs, fault)

\* LoadImageFromCloud.fingerprint_inputs: no validate_config, and the
\* exception of create_s3_client is swallowed like any other
load_image_fingerprint(config, key, files, objs, fault) ==
    IF create_s3_client(config).exc # ""
    THEN Ended(<<>>, "", "", files, objs)
    ELSE fingerprint_body(config, key, files, objs, fault)

\* LoadModelFromCloud.execute
load_model_execute(config, key, force_redownload, model_paths, files, objs, faults, objs_then) ==
    IF prologue(config) # ""
    THEN Ended(<<>>, prologue(config), "", files, objs)
    ELSE load_model_body(config, key, force_redownload, model_paths, files,
                         objs, faults, objs_then)

\* SaveImageToCloud.execute
save_images_execute(config, count, key_prefix, filename, format, files, objs, fail_at, fault) ==
    IF prologue(config) # ""
    THEN Ended(<<>>, prologue(config), <<>>, files, objs)
    ELSE save_images_body(config, count, key_prefix, filename, format, files,
                          objs, fail_at, fault)

\* SaveVideoToCloud.execute (upload_fileobj), SaveAudioToCloud.execute
\* (put_object)
save_media_execute(node, config, key_prefix, filename, ext, files, objs, fault) ==
    IF prologue(config) # ""
    THEN Ended(<<>>, prologue(config), <<>>, files, objs)
    ELSE save_media_body(IF node = SAVE_VIDEO THEN "upload_fileobj"
                         ELSE "put_object",
                         config, key_prefix, filename, ext, files, objs, fault)

\* ListBucket.execute
list_bucket_execute(config, prefix, files, objs, fault) ==
    IF prologue(config) # ""
    THEN Ended(<<>>, prologue(config), "", files, objs)
    ELSE list_bucket_body(config, prefix, files, objs, fault)

\* GeneratePresignedURL.execute
presign_execute(config, key, files, objs, fault) ==
    IF prologue(config) # ""
    THEN Ended(<<>>, prologue(config), "", files, objs)
    ELSE presign_body(config, key, files, objs, fault)

(***************************************************************************)
(* The storage nodes' state machine: in a fixed environment the host runs  *)
(* the storage nodes with no profile connected, on a models directory and  *)
(* a bucket whose objects other clients replace.                           *)
(***************************************************************************)
\* the largest batch of images SaveImageToCloud is run on
MaxBatch == 2

\* the first model directory folder_paths knows for the model type
MODEL_DIR == "/models/checkpoints"

ModelKeys == {"models/model.safetensors"}

ImageKeys == {"in.png", "/in.png"}

\* the ETag the service computes for a version of an object's bytes
ETag(version) == "etag-" \o version

\* what an object of the bucket can be replaced by: a new version, with its
\* ETag or with none sent
Replacements == {Object("v2", ETag("v2")), Object("v2", "")}

\* the environments the storage nodes are run in
StorageEnvs ==
    {<<>>,
     [ACCESS_KEY |-> "envkey", SECRET_KEY |-> "envsecret",
      BUCKET |-> "envbucket"],
     [ACCESS_KEY |-> "envkey", SECRET_KEY |-> "envsecret",
      BUCKET |-> "envbucket", PATH_PREFIX |-> "env/"]}

\* config = profile or resolve_default_profile(), no profile connected
CurrentConfig == node_config(env, store, NoProfile)

\* the objects the load nodes are asked for
WatchedKeys(config) ==
    {prefixed_key(config, k) : k \in ModelKeys}
        \cup {load_image_key(config, k) : k \in ImageKeys}

Bucket(config) == [k \in WatchedKeys(config) |-> Object("v1", ETag("v1"))]

\* the models directory as the user or an earlier download left it
CachedModel ==
    [f \in {path_join(MODEL_DIR, "model.safetensors")} |-> "v1"]

CachedModelWithSidecar ==
    write_file(CachedModel,
               path_join(MODEL_DIR, "model.safetensors") \o ".s3etag",
               ETag("v1"))

\* how the storage calls of one LoadModelFromCloud.execute end
LoadFaults ==
    {[cache_head |-> "ok", head |-> "ok", download |-> "ok", partial |-> FALSE],
     [cache_head |-> "ClientError", head |-> "ok", download |-> "ok", partial |-> FALSE],
     [cache_head |-> "EndpointConnectionError", head |-> "ok", download |-> "ok", partial |-> FALSE],
     [cache_head |-> "ok", head |-> "ClientError", download |-> "ok", partial |-> FALSE],
     [cache_head |-> "ok", head |-> "ok", download |-> "ClientError", partial |-> FALSE],
     [cache_head |-> "ok", head |-> "ok", download |-> "EndpointConnectionError", partial |-> TRUE]}

\* the bucket at the time of the download: as at the head, or with the
\* object replaced in between
Then(objs, key) ==
    {objs} \cup
        {[objs EXCEPT ![key] = o] : o \in
            IF key \in DOMAIN objs /\ objs[key].version = "v1"
            THEN {Object("v2", ETag("v2"))} ELSE {}}

\* a node has run: what it was given and how it ended
Ran(node, args, config, ended) ==
    /\ last.op = "idle"
    /\ last' = [op |-> node, args |-> args, config |-> config,
                files |-> models_dir, objs |-> objects, ended |-> ended]
    /\ models_dir' = ended.files
    /\ objects' = ended.objs
    /\ UNCHANGED <<env, store, calls, returned>>

InitStorage ==
    /\ env \in StorageEnvs
    /\ store = AbsentFile
    /\ last = Idle
    /\ calls = <<>>
    /\ returned = Idle
    /\ models_dir \in {NoFiles, CachedModel, CachedModelWithSidecar}
    /\ objects = Bucket(CurrentConfig)

\* another client of the bucket replaces an object
RemoteChanges(key, object) ==
    /\ last.op = "idle"
    /\ key \in DOMAIN objects
    /\ objects[key].version = "v1"
    /\ objects' = [objects EXCEPT ![key] = object]
    /\ UNCHANGED <<env, store, last, calls, returned, models_dir>>

ExecuteLoadImage(key, fault) ==
    Ran(LOAD_IMAGE, [key |-> key, fault |-> fault], CurrentConfig,
        load_image_execute(CurrentConfig, key, models_dir, objects, fault))

FingerprintInputs(key, fault) ==
    Ran(FINGERPRINT, [key |-> key, fault |-> fault], CurrentConfig,
        load_image_fingerprint(CurrentConfig, key, models_dir, objects, fault))

ExecuteLoadModel(key, force_redownload, model_paths, faults, objs_then) ==
    Ran(LOAD_MODEL,
        [key |-> key, force_redownload |-> force_redownload,
         model_paths |-> model_paths, faults |-> faults,
         objs_then |-> objs_then],
        CurrentConfig,
        load_model_execute(CurrentConfig, key, force_redownload, model_paths,
                           models_dir, objects, faults, objs_then))

ExecuteSaveImages(count, key_prefix, filename, fail_at, fault) ==
    Ran(SAVE_IMAGE,
        [count |-> count, key_prefix |-> key_prefix, filename |-> filename,
         format |-> "png", fail_at |-> fail_at, fault |-> fault],
        CurrentConfig,
        save_images_execute(CurrentConfig, count, key_prefix, filename, "png",
                            models_dir, objects, fail_at, fault))

ExecuteSaveMedia(node, ext, fault) ==
    Ran(node,
        [key_prefix |-> "comfyui/media/", filename |-> "ComfyUI", ext |-> ext,
         fault |-> fault],
        CurrentConfig,
        save_media_execute(node, CurrentConfig, "comfyui/media/", "ComfyUI",
                           ext, models_dir, objects, fault))

ExecuteListBucket(prefix, fault) ==
    Ran(LIST_BUCKET, [key |-> prefix, fault |-> fault], CurrentConfig,
        list_bucket_execute(CurrentConfig, prefix, models_dir, objects, fault))

ExecutePresign(key, fault) ==
    Ran(PRESIGN, [key |-> key, fault |-> fault], CurrentConfig,
        presign_execute(CurrentConfig, key, models_dir, objects, fault))

NextStorage ==
    \/ \E key \in WatchedKeys(CurrentConfig), object \in Replacements :
            RemoteChanges(key, object)
    \/ \E key \in ImageKeys, fault \in Faults : ExecuteLoadImage(key, fault)
    \/ \E key \in ImageKeys, fault \in Faults : FingerprintInputs(key, fault)
    \/ \E key \in ModelKeys, force_redownload \in BOOLEAN,
          model_paths \in {<<>>, <<MODEL_DIR>>}, faults \in LoadFaults :
            \E objs_then \in Then(objects, prefixed_key(CurrentConfig, key)) :
                ExecuteLoadModel(key, force_redownload, model_paths, faults,
                                 objs_then)
    \/ \E count \in 0..MaxBatch, fail_at \in 0..(MaxBatch - 1),
          filename \in {"ComfyUI_%batch_num%", "%batch_num%_%batch_num%"},
          fault \in Faults :
            ExecuteSaveImages(count, "comfyui/images/", filename, fail_at, fault)
    \/ \E fault \in Faults : ExecuteSaveMedia(SAVE_VIDEO, "mp4", fault)
    \/ \E fault \in Faults : ExecuteSaveMedia(SAVE_AUDIO, "flac", fault)
    \/ \E prefix \in {"", "comfyui/"}, fault \in Faults :
            ExecuteListBucket(prefix, fault)
    \/ \E key \in ImageKeys, fault \in Faults : ExecutePresign(key, fault)
    \/ Return

SpecStorage == InitStorage /\ [][NextStorage]_vars

(***************************************************************************)
(* The load nodes on a client: the code of LoadImageFromCloud and           *)
(* LoadModelFromCloud from the line that follows the call of               *)
(* create_s3_client, run on a client of the bucket.  It is what these      *)
(* nodes do with the storage service and the models directory wherever the *)
(* factory call hands them a client.                                       *)
(***************************************************************************)
\* a node past validate_config and holding a client has run
RanOnClient(node, args, ended) ==
    /\ validate_config(CurrentConfig) = ""
    /\ Ran(node, args, CurrentConfig, ended)

InitClient ==
    /\ env \in {e \in StorageEnvs : validate_config(env_layer(e)) = ""}
    /\ store = AbsentFile
    /\ last = Idle
    /\ calls = <<>>
    /\ returned = Idle
    /\ models_dir = NoFiles
    /\ objects = Bucket(CurrentConfig)

LoadImageOnClient(key, fault) ==
    RanOnClient(LOAD_IMAGE, [key |-> key, fault |-> fault],
                load_image_body(CurrentConfig, key, models_dir, objects, fault))

FingerprintOnClient(key, fault) ==
    RanOnClient(FINGERPRINT, [key |-> key, fault |-> fault],
                fingerprint_body(CurrentConfig, key, models_dir, objects, fault))

LoadModelOnClient(key, force_redownload, model_paths, faults, objs_then) ==
    RanOnClient(LOAD_MODEL,
                [key |-> key, force_redownload |-> force_redownload,
                 model_paths |-> model_paths, faults |-> faults,
                 objs_then |-> objs_then],
                load_model_body(CurrentConfig, key, force_redownload,
                                model_paths, models_dir, objects, faults,
                                objs_then))

NextClient ==
    \/ \E key \in WatchedKeys(CurrentConfig), object \in Replacements :
            RemoteChanges(key, object)
    \/ \E key \in ImageKeys, fault \in Faults : LoadImageOnClient(key, fault)
    \/ \E key \in ImageKeys, fault \in Faults : FingerprintOnClient(key, fault)
    \/ \E key \in ModelKeys, force_redownload \in BOOLEAN,
          model_paths \in {<<>>, <<MODEL_DIR>>}, faults \in LoadFaults :
            \E objs_then \in Then(objects, prefixed_key(CurrentConfig, key)) :
                LoadModelOnClient(key, force_redownload, model_paths, faults,
                                  objs_then)
    \/ Return

SpecClient == InitClient /\ [][NextClient]_vars

(***************************************************************************)
(* What the claims speak of, read off the environment and the file.        *)
(***************************************************************************)
PROFILE_OP == "CloudStorageProfile.execute"

\* resolve_profile was called and returned a Configuration
Resolved == last.op = PROFILE_OP /\ last.resolved.exc = ""

\* the call passed no per-call override
NoOverrides ==
    /\ last.provider \in {"", FROM_PROFILE}
    /\ last.bucket = ""
    /\ last.path_prefix = ""

\* the value the environment gives field f, "" when unset
EnvSetting(f) ==
    LET s == CHOOSE n \in EnvNames : ENV_KEYS[n] = f
    IN IF s \in DOMAIN env THEN env[s] ELSE ""

\* the name -> entry mapping profiles.json holds, empty when it holds none
StoreProfiles ==
    IF /\ store.kind = "json"
       /\ store.doc.type = "object"
       /\ "profiles" \in DictKeys(store.doc)
       /\ DictItem(store.doc, "profiles").type = "object"
    THEN DictItem(store.doc, "profiles")
    ELSE EmptyDict

\* the store maps name to a non-empty partial Configuration
StoreMaps(name) ==
    /\ name \in DictKeys(StoreProfiles)
    /\ DictItem(StoreProfiles, name).type = "object"
    /\ Len(DictItem(StoreProfiles, name).members) > 0

\* the value the profile called name gives field f, "" when it gives none
EntrySetting(name, f) ==
    IF /\ StoreMaps(name)
       /\ f \in DictKeys(DictItem(StoreProfiles, name))
       /\ DictItem(DictItem(StoreProfiles, name), f).type = "string"
    THEN DictItem(DictItem(StoreProfiles, name), f).str
    ELSE ""

BuiltIn(f) == IF f = "provider" THEN "AWS S3" ELSE ""

\* profile value, else environment value, else built-in default
Layered(name, f) ==
    IF EntrySetting(name, f) # "" THEN EntrySetting(name, f)
    ELSE IF EnvSetting(f) # "" THEN EnvSetting(f)
    ELSE BuiltIn(f)

(***************************************************************************)
(* The claims.                                                             *)
(***************************************************************************)

\* C1: for a name the store maps to a non-empty partial Configuration,
\* resolve with no overrides returns, field by field, the profile's value
\* when non-empty, else the environment's when non-empty, else the default.
C1_ProfileOverlaysEnv ==
    (last.op = PROFILE_OP /\ NoOverrides /\ StoreMaps(last.profile)) =>
        /\ last.resolved.exc = ""
        /\ \A f \in Fields :
              last.resolved.config[f] = Layered(last.profile, f)

\* C1 witness: the profile sets the bucket over the environment's, and its
\* empty region leaves the environment's region standing.
C1_Witness ==
    /\ last.op = PROFILE_OP /\ NoOverrides /\ last.profile = "staging"
    /\ EnvSetting("bucket") = "envbucket"
    /\ EnvSetting("region") = "us-west-004"
    /\ last.resolved.config["bucket"] = "stagingbucket"
    /\ last.resolved.config["region"] = "us-west-004"

\* C2 as stated: every providerOverride other than the sentinel, the empty
\* one included, becomes the resolved provider.
C2_Original ==
    Resolved =>
        /\ last.bucket # "" => last.resolved.config["bucket"] = last.bucket
        /\ last.path_prefix # "" =>
              last.resolved.config["path_prefix"] = last.path_prefix
        /\ last.provider # FROM_PROFILE =>
              last.resolved.config["provider"] = last.provider
        /\ last.bucket = "" =>
              last.resolved.config["bucket"] = Layered(last.profile, "bucket")
        /\ last.path_prefix = "" =>
              last.resolved.config["path_prefix"] =
                  Layered(last.profile, "path_prefix")
        /\ last.provider = FROM_PROFILE =>
              last.resolved.config["provider"] =
                  Layered(last.profile, "provider")

\* C2 amended: a non-empty override (for the provider: non-empty and not the
\* sentinel) becomes the resolved field; an empty override, or the sentinel
\* or empty providerOverride, leaves what the lower layers produced.
C2_OverridesWin ==
    Resolved =>
        /\ last.bucket # "" => last.resolved.config["bucket"] = last.bucket
        /\ last.path_prefix # "" =>
              last.resolved.config["path_prefix"] = last.path_prefix
        /\ last.provider \notin {"", FROM_PROFILE} =>
              last.resolved.config["provider"] = last.provider
        /\ last.bucket = "" =>
              last.resolved.config["bucket"] = Layered(last.profile, "bucket")
        /\ last.path_prefix = "" =>
              last.resolved.config["path_prefix"] =
                  Layered(last.profile, "path_prefix")
        /\ last.provider \in {"", FROM_PROFILE} =>
              last.resolved.config["provider"] =
                  Layered(last.profile, "provider")

\* C2 witness: all three overrides given against a profile and an
\* environment that set the same fields.
C2_Witness ==
    /\ Resolved /\ last.profile = "production"
    /\ last.provider = "MinIO" /\ last.bucket = "mybucket"
    /\ last.path_prefix = "outputs/"
    /\ EnvSetting("bucket") # "" /\ EnvSetting("path_prefix") # ""
    /\ last.resolved.config["provider"] = "MinIO"
    /\ last.resolved.config["bucket"] = "mybucket"
    /\ last.resolved.config["path_prefix"] = "outputs/"

ProtectedFields ==
    {"access_key", "secret_key", "region", "endpoint_url", "account_id"}

\* C3: the call made ends as the call with the same selector and no
\* override at all does, and returns the same access_key, secret_key,
\* region, endpoint_url and account_id; so any two calls that differ only
\* in their three overrides agree on these.
C3_OverridesLeaveCredentials ==
    last.op = PROFILE_OP =>
        LET plain == resolve_profile(env, store, last.profile, FROM_PROFILE,
                                     "", "")
        IN  /\ plain.exc = last.resolved.exc
            /\ plain.exc = "" =>
                  \A f \in ProtectedFields :
                      plain.config[f] = last.resolved.config[f]

\* C3 witness: a call with all three overrides that returned credentials.
C3_Witness ==
    /\ Resolved
    /\ last.provider = "MinIO" /\ last.bucket # "" /\ last.path_prefix # ""
    /\ last.resolved.config["access_key"] # ""
    /\ last.resolved.config["secret_key"] # ""

\* C4: validate reports the first missing field in the order access_key,
\* secret_key, bucket, and the three errors differ from one another.
C4_ValidateOrder ==
    Resolved =>
        LET c == last.resolved.config
        IN  /\ c["access_key"] = "" => last.error = ACCESS_KEY_ERROR
            /\ (c["access_key"] # "" /\ c["secret_key"] = "") =>
                  last.error = SECRET_KEY_ERROR
            /\ (c["access_key"] # "" /\ c["secret_key"] # ""
                    /\ c["bucket"] = "") =>
                  last.error = BUCKET_ERROR
            /\ Cardinality({"", ACCESS_KEY_ERROR, SECRET_KEY_ERROR,
                            BUCKET_ERROR}) = 4

\* C4 witness: secret_key and bucket both missing, secret_key reported.
C4_Witness ==
    /\ Resolved
    /\ last.resolved.config["access_key"] # ""
    /\ last.resolved.config["secret_key"] = ""
    /\ last.resolved.config["bucket"] = ""
    /\ last.error = SECRET_KEY_ERROR

\* C5: resolve never raises, whatever the state of the profile store file.
C5_ResolveNeverRaises ==
    last.op = PROFILE_OP => last.resolved.exc = ""

\* C6: with a Configuration that passes validate, each of the seven node
\* operations obtains a client: its factory call is accepted.
C6_NodesObtainClient ==
    (last.op \in NodeOps \ {FINGERPRINT} /\ validate_config(last.config) = "") =>
        /\ \E i \in 1..Len(last.steps) : last.steps[i] = "create_s3_client"
        /\ last.error # "TypeError"
        /\ last.client # <<>>

\* C7: in every node operation no storage-client call is made unless
\* validate succeeded first, and a Configuration that fails validate ends
\* the operation with the configuration error, no storage call made.
C7_ValidateBeforeStorage ==
    last.op \in NodeOps =>
        /\ \A i \in 1..Len(last.steps) :
              last.steps[i] \in StorageCalls =>
                  /\ validate_config(last.config) = ""
                  /\ \E j \in 1..(i - 1) : last.steps[j] = "validate_config"
        /\ validate_config(last.config) # "" =>
              /\ last.error = validate_config(last.config)
              /\ \A i \in 1..Len(last.steps) :
                    last.steps[i] \notin StorageCalls

\* C8: the selector "(env vars)" with no overrides returns the built-in
\* default with each field replaced by its variable exactly when that
\* variable is set and non-empty; the store contributes nothing.
C8_EnvOnly ==
    (last.op = PROFILE_OP /\ last.profile = ENV_ONLY /\ NoOverrides) =>
        /\ last.resolved.exc = ""
        /\ DOMAIN last.resolved.config = Fields
        /\ \A f \in Fields :
              last.resolved.config[f] =
                  IF EnvSetting(f) # "" THEN EnvSetting(f) ELSE BuiltIn(f)

\* C8 witness: one variable set to the empty string, one to a value, and a
\* store that holds profiles.
C8_Witness ==
    /\ last.op = PROFILE_OP /\ last.profile = ENV_ONLY /\ NoOverrides
    /\ "PROVIDER" \in DOMAIN env /\ env["PROVIDER"] = ""
    /\ EnvSetting("bucket") = "envbucket"
    /\ StoreMaps("production")
    /\ last.resolved.config["provider"] = "AWS S3"
    /\ last.resolved.config["bucket"] = "envbucket"

\* C9: a profile name the store does not hold never makes resolve raise,
\* and yields what resolve("(env vars)") yields with the same overrides.
C9_MissingProfileIsEnvOnly ==
    (last.op = PROFILE_OP /\ last.profile \notin {"", ENV_ONLY}
        /\ last.profile \notin DictKeys(StoreProfiles)) =>
        /\ last.resolved.exc = ""
        /\ last.resolved.config =
              resolve_profile(env, store, ENV_ONLY, last.provider,
                              last.bucket, last.path_prefix).config

\* C10 as stated: with providerOverride = "(from profile)" the returned
\* provider is never "(from profile)", whatever the environment and store.
C10_Original ==
    (Resolved /\ last.provider = FROM_PROFILE) =>
        last.resolved.config["provider"] # FROM_PROFILE

\* C10 amended: with providerOverride = "(from profile)" the returned
\* provider is the one the profile and environment layers produced, so it is
\* "(from profile)" only when the profile or the environment holds that
\* very string as its provider.
C10_SentinelNotApplied ==
    (Resolved /\ last.provider = FROM_PROFILE) =>
        /\ last.resolved.config["provider"] = Layered(last.profile, "provider")
        /\ last.resolved.config["provider"] = FROM_PROFILE =>
              \/ EntrySetting(last.profile, "provider") = FROM_PROFILE
              \/ EnvSetting("provider") = FROM_PROFILE

\* C10 witness: the sentinel override against a profile that names a
\* provider; the profile's provider is returned.
C10_Witness ==
    /\ Resolved /\ last.provider = FROM_PROFILE
    /\ last.profile = "production"
    /\ last.resolved.config["provider"] = "Backblaze B2"

OptionalFields ==
    {"provider", "region", "endpoint_url", "account_id", "path_prefix"}

\* C11: validate succeeds exactly when access_key, secret_key and bucket are
\* all non-empty, and its outcome stays the same whatever provider, region,
\* endpoint_url, account_id and path_prefix are changed to; so a
\* Configuration that passed has the three required fields non-empty.
C11_ValidateIffRequired ==
    Resolved =>
        LET c == last.resolved.config
        IN  /\ last.error = "" <=>
                  (c["access_key"] # "" /\ c["secret_key"] # ""
                      /\ c["bucket"] # "")
            /\ \A f \in OptionalFields : \A v \in {"", "other"} :
                  validate_config([c EXCEPT ![f] = v]) = last.error

\* C11 witness: a Configuration passes with region, endpoint_url,
\* account_id and path_prefix all empty.
C11_Witness ==
    /\ Resolved /\ last.error = ""
    /\ last.resolved.config["access_key"] # ""
    /\ last.resolved.config["bucket"] # ""
    /\ \A f \in OptionalFields \ {"provider"} : last.resolved.config[f] = ""

\* s holds t as a substring
Contains(s, t) ==
    \E i \in 1..(Len(s) - Len(t) + 1) : SubSeq(s, i, i + Len(t) - 1) = t

\* the words by which a message names the field that is missing
FieldWords ==
    [access_key |-> "access key", secret_key |-> "secret key",
     bucket |-> "bucket"]

\* the field validate found missing in the Configuration
MissingField(c) ==
    IF c["access_key"] = "" THEN "access_key"
    ELSE IF c["secret_key"] = "" THEN "secret_key"
    ELSE "bucket"

\* C12: each validate failure carries a message that names the missing
\* field and hints at the three ways to supply it: the environment variable,
\* the named profile file, and the per-call input of the profile node.
C12_MessagesHintThreeWays ==
    (Resolved /\ last.error # "") =>
        /\ Contains(last.error, FieldWords[MissingField(last.resolved.config)])
        /\ Contains(last.error, "env var")
        /\ Contains(last.error, "profile")
        /\ Contains(last.error, "node")

\* create_s3_client was called and returned a client
Made == last.op = FACTORY_OP /\ last.made.exc = ""

\* the values the six parameters are bound to: the defaults, then the
\* keyword arguments passed
Args == DictUpdate(CREATE_S3_CLIENT_DEFAULTS, last.kwargs)

\* the keyword arguments the storage client was built with
Client == last.made.client

\* C13: a non-empty explicit endpoint_url is the endpoint the storage client
\* is given, verbatim, for every provider name, region and account id.
C13_ExplicitEndpointWins ==
    (Made /\ Args["endpoint_url"] # "") =>
        /\ "endpoint_url" \in DOMAIN Client
        /\ Client["endpoint_url"] = Args["endpoint_url"]

\* C13 witness: an explicit endpoint given with a provider whose preset has
\* a template of its own.
C13_Witness ==
    /\ Made /\ Args["provider"] = "Backblaze B2"
    /\ Args["region"] = "eu-central-003"
    /\ Client["endpoint_url"] = "https://custom.example.com"

\* an endpoint template as the text the registry holds
RECURSIVE TemplateText(_)
TemplateText(parts) ==
    IF parts = <<>> THEN "" ELSE Head(parts) \o TemplateText(Tail(parts))

\* text with every occurrence of placeholder replaced by value
RECURSIVE Substitute(_, _, _)
Substitute(text, placeholder, value) ==
    IF Len(text) < Len(placeholder) THEN text
    ELSE IF SubSeq(text, 1, Len(placeholder)) = placeholder
    THEN value \o Substitute(SubSeq(text, Len(placeholder) + 1, Len(text)),
                             placeholder, value)
    ELSE SubSeq(text, 1, 1) \o
            Substitute(SubSeq(text, 2, Len(text)), placeholder, value)

\* the caller's region when non-empty, else the preset's default_region
EffectiveRegion ==
    IF Args["region"] # "" THEN Args["region"]
    ELSE preset_of(Args["provider"]).default_region

\* the preset's template with both placeholders replaced
FilledTemplate ==
    Substitute(
        Substitute(TemplateText(preset_of(Args["provider"]).endpoint_template),
                   "{region}", EffectiveRegion),
        "{account_id}", Args["account_id"])

\* C14: with an empty explicit endpoint_url, a preset with a non-empty
\* template gives the client that template with {region} replaced by the
\* effective region and {account_id} by the account id; a preset with an
\* empty template gives the client no endpoint at all.
C14_TemplateEndpoint ==
    (Made /\ Args["endpoint_url"] = "") =>
        IF preset_of(Args["provider"]).endpoint_template # <<>>
        THEN /\ "endpoint_url" \in DOMAIN Client
             /\ Client["endpoint_url"] = FilledTemplate
        ELSE "endpoint_url" \notin DOMAIN Client

\* C14 witness: the account id substituted into the R2 template.
C14_Witness ==
    /\ Made /\ Args["provider"] = "Cloudflare R2"
    /\ Args["endpoint_url"] = "" /\ Args["account_id"] = "abc123"
    /\ Client["endpoint_url"] = "https://abc123.r2.cloudflarestorage.com"

\* C15: the client's region, and the region put into the endpoint
\* template, is the caller's region when non-empty and the preset's
\* default_region when it is empty.
C15_EffectiveRegion ==
    Made =>
        LET text == TemplateText(preset_of(Args["provider"]).endpoint_template)
        IN  /\ Client["region_name"] = EffectiveRegion
            /\ (Args["endpoint_url"] = "" /\ Contains(text, "{region}")) =>
                  /\ "endpoint_url" \in DOMAIN Client
                  /\ Client["endpoint_url"] =
                        Substitute(text, "{region}", EffectiveRegion)

\* C15 witness: no region given, the B2 default in the client's region and
\* in its endpoint.
C15_Witness ==
    /\ Made /\ Args["provider"] = "Backblaze B2"
    /\ Args["region"] = "" /\ Args["endpoint_url"] = ""
    /\ Client["region_name"] = "us-west-004"
    /\ Client["endpoint_url"] = "https://s3.us-west-004.backblazeb2.com"

\* the call made, with the provider argument replaced
WithProvider(provider) ==
    create_s3_client(DictUpdate(last.kwargs, [provider |-> provider]))

\* C16: the factory's provider lookup never fails; a name that is a
\* registry key gives that key's preset, any other name (the empty one and
\* the widget's sentinel included) gives the client the "Custom" name
\* gives, and the Custom preset has an empty endpoint_template, an empty
\* default_region and force_path_style false.
C16_LookupFallsBackToCustom ==
    last.op = FACTORY_OP =>
        /\ last.made.exc = ""
        /\ Args["provider"] \notin PROVIDER_NAMES =>
              last.made = WithProvider("Custom")
        /\ Args["provider"] \in PROVIDER_NAMES =>
              /\ Args["region"] = "" =>
                    Client["region_name"] =
                        PROVIDERS[Args["provider"]].default_region
              /\ Client["addressing_style"] = "path" <=>
                    PROVIDERS[Args["provider"]].force_path_style
              /\ "endpoint_url" \in DOMAIN Client <=>
                    \/ Args["endpoint_url"] # ""
                    \/ PROVIDERS[Args["provider"]].endpoint_template # <<>>
        /\ PROVIDERS["Custom"] =
              [endpoint_template |-> <<>>, default_region |-> "",
               force_path_style |-> FALSE]

\* C16 witness: the sentinel "(from profile)" as provider name, nothing
\* else given; the client has no region, no endpoint, automatic addressing.
C16_Witness ==
    /\ Made /\ Args["provider"] = FROM_PROFILE
    /\ Args["region"] = "" /\ Args["endpoint_url"] = ""
    /\ Client["region_name"] = ""
    /\ "endpoint_url" \notin DOMAIN Client
    /\ Client["addressing_style"] = "auto"

\* the presets of the registry that force path-style addressing
PathStylePresets == {name \in PROVIDER_NAMES : PROVIDERS[name].force_path_style}

\* C17: exactly one preset of the registry, MinIO, has force_path_style
\* true; the factory selects path-style addressing when the provider is
\* MinIO and automatic addressing for every other name, unknown ones
\* included.
C17_OnlyMinIOPathStyle ==
    /\ PathStylePresets = {"MinIO"}
    /\ Made =>
          /\ Client["addressing_style"] \in {"path", "auto"}
          /\ Client["addressing_style"] = "path" <=> Args["provider"] = "MinIO"

\* C17 witness: a MinIO client with path-style addressing.
C17_Witness ==
    /\ Made /\ Args["provider"] = "MinIO"
    /\ Client["addressing_style"] = "path"
    /\ Client["endpoint_url"] = "http://localhost:9000"

\* thread id holds what its call of op returned or raised
Returned(id, op) == calls[id].pc = "returned" /\ calls[id].op = op

\* the call of thread id run by itself on the environment and the file
Alone(id) ==
    IF calls[id].op = RESOLVE_OP
    THEN resolve_profile(env, store, calls[id].args.profile,
                         calls[id].args.provider, calls[id].args.bucket,
                         calls[id].args.path_prefix)
    ELSE load_profile_names(store)

\* the names of the mapping profiles.json holds, in the order it holds them
StoreNames ==
    [i \in 1..Len(StoreProfiles.members) |-> StoreProfiles.members[i].key]

\* C18: listProfileNames returns the store's profile names in the order the
\* store holds them, and returns the empty sequence, never raising, when
\* the store file is absent, unreadable or malformed.
C18_ListNamesInStoreOrder ==
    \A id \in CallIds :
        Returned(id, LIST_OP) =>
            /\ calls[id].result.exc = ""
            /\ calls[id].result.val = StoreNames

\* C19: resolve keeps no state between calls: a call made after earlier
\* calls have returned and the environment and the file have been edited
\* returns what a first call with its arguments returns on the environment
\* and the file as they are now.
C19_ResolveKeepsNoState ==
    \A id \in CallIds :
        (/\ Returned(id, RESOLVE_OP)
         /\ returned # Idle
         /\ \A other \in CallIds \ {id} : calls[other] = NoCall) =>
            calls[id].result =
                resolve_profile(env, store, calls[id].args.profile,
                                calls[id].args.provider, calls[id].args.bucket,
                                calls[id].args.path_prefix)

\* C19 witness: the same call made twice with an edit in between, the
\* second result differing from the first.
C19_Witness ==
    \E id \in CallIds :
        /\ Returned(id, RESOLVE_OP)
        /\ \A other \in CallIds \ {id} : calls[other] = NoCall
        /\ returned # Idle /\ returned.op = RESOLVE_OP
        /\ returned.args = calls[id].args
        /\ returned.result.exc = "" /\ calls[id].result.exc = ""
        /\ returned.result.config["bucket"] = ""
        /\ calls[id].result.config["bucket"] = "envbucket"

\* every finished call holds the result of the call run by itself
CallsAsAlone ==
    \A id \in CallIds : calls[id].pc = "returned" => calls[id].result = Alone(id)

\* a step of a call leaves the environment, the file and every other call
\* as they are
CallStepTouchesOwnFrame ==
    calls' # calls =>
        /\ env' = env
        /\ store' = store
        /\ Cardinality({id \in CallIds : calls'[id] # calls[id]}) = 1

\* C20: resolve and listProfileNames calls that overlap, their reads
\* interleaved in any order, each return what the call run alone on the same
\* environment and file returns, and no step of a call changes the
\* environment, the file or anything another call holds.
C20_ConcurrentCallsIndependent ==
    []CallsAsAlone /\ [][CallStepTouchesOwnFrame]_vars

\* C20 witness: two calls that overlapped have both returned, each with its
\* own result.
C20_Witness ==
    \E a, b \in CallIds :
        /\ Returned(a, RESOLVE_OP) /\ Returned(b, LIST_OP)
        /\ calls[a].args.profile = "production"
        /\ calls[a].result.exc = ""
        /\ calls[a].result.config["provider"] = "MinIO"
        /\ calls[a].result.config["bucket"] = "profilebucket"
        /\ calls[b].result.val = <<"default", "production", "staging", "legacy">>

\* C28: every Configuration resolve returns has exactly the eight fields
\* provider, access_key, secret_key, region, bucket, endpoint_url,
\* account_id and path_prefix, whatever keys the named profile entry holds.
C28_ExactlyEightFields ==
    Resolved =>
        DOMAIN last.resolved.config =
            {"provider", "access_key", "secret_key", "region", "bucket",
             "endpoint_url", "account_id", "path_prefix"}

(***************************************************************************)
(* C21..C27: the storage nodes.                                            *)
(***************************************************************************)
\* a storage node has run and its result is still with the host
StorageRan(node) == last.op = node /\ "ended" \in DOMAIN last

StorageNodes ==
    {LOAD_IMAGE, FINGERPRINT, LOAD_MODEL, SAVE_IMAGE, SAVE_VIDEO, SAVE_AUDIO,
     LIST_BUCKET, PRESIGN}

\* the key or prefix part the caller supplied for the i-th request of the
\* node that has run
SuppliedPart(i) ==
    IF last.op = SAVE_IMAGE
    THEN last.args.key_prefix
            \o Substitute(last.args.filename, "%batch_num%", ToString(i - 1))
            \o "." \o last.args.format
    ELSE IF last.op \in {SAVE_VIDEO, SAVE_AUDIO}
    THEN last.args.key_prefix \o last.args.filename \o "." \o last.args.ext
    ELSE last.args.key

\* C21: every object key or listing prefix a node sends to the storage
\* client is the Configuration's path_prefix followed by the key or prefix
\* part the caller supplied, whatever that string is.
C21_KeysFollowPathPrefix ==
    \A node \in StorageNodes :
        StorageRan(node) =>
            \A i \in DOMAIN last.ended.requests :
                last.ended.requests[i].key
                    = path_prefix_of(last.config) \o SuppliedPart(i)

\* LoadModelFromCloud.execute has run on a Configuration that validates,
\* with a directory for the model type
ModelRan ==
    /\ StorageRan(LOAD_MODEL)
    /\ validate_config(last.config) = ""
    /\ last.args.model_paths # <<>>

\* the object, the model file, its sidecar and its temp file of that run
ModelKey == path_prefix_of(last.config) \o last.args.key

LocalPath == path_join(last.args.model_paths[1], basename(ModelKey))

SidecarPath == LocalPath \o ".s3etag"

TempPath == LocalPath \o ".download"

\* every storage call of the run was answered
NoFault ==
    /\ last.args.faults.cache_head = "ok"
    /\ last.args.faults.head = "ok"
    /\ last.args.faults.download = "ok"
    /\ ModelKey \in DOMAIN last.objs

\* the run found the model file, its sidecar and the remote ETag agreeing
CacheValid ==
    /\ ~last.args.force_redownload
    /\ LocalPath \in DOMAIN last.files
    /\ SidecarPath \in DOMAIN last.files
    /\ last.files[SidecarPath] = last.objs[ModelKey].etag

Downloaded ==
    \E i \in DOMAIN last.ended.requests :
        last.ended.requests[i] =
            Request("download_file", last.config["bucket"], ModelKey)

\* C22: with force_redownload false, the model file present and a sidecar
\* equal to the remote object's current ETag, LoadModelFromCloud.execute
\* returns the local filename without downloading and without touching a
\* file; forced, or with the file or the sidecar missing, or with a sidecar
\* that differs from the remote ETag, it downloads the object again.
C22_CacheHitOrDownload ==
    ModelRan /\ NoFault =>
        IF CacheValid
        THEN /\ last.ended.error = ""
             /\ last.ended.output = basename(ModelKey)
             /\ ~Downloaded
             /\ last.ended.files = last.files
        ELSE Downloaded

\* the check of the cache against the remote object raised an exception
CheckRaised ==
    /\ ~last.args.force_redownload
    /\ LocalPath \in DOMAIN last.files
    /\ \/ last.args.faults.cache_head # "ok"
       \/ ModelKey \notin DOMAIN last.objs

\* C23: when the model file exists and force_redownload is false, any
\* exception raised while the cache is checked against the remote object
\* makes LoadModelFromCloud.execute return the cached filename without
\* downloading, instead of failing.
C23_CheckFailureUsesCache ==
    ModelRan /\ CheckRaised =>
        /\ last.ended.error = ""
        /\ last.ended.output = basename(ModelKey)
        /\ ~Downloaded

\* the download of the run was started and failed
DownloadFailed == ModelRan /\ Downloaded /\ last.ended.error # ""

\* a file is after the run what it was before it
Untouched(path) ==
    /\ path \in DOMAIN last.ended.files <=> path \in DOMAIN last.files
    /\ path \in DOMAIN last.files =>
            last.ended.files[path] = last.files[path]

\* the versions the object of the run has had in the bucket
CompleteFiles ==
    {o.version : o \in {last.objs[ModelKey], last.args.objs_then[ModelKey]}}

\* C24: if the download in LoadModelFromCloud.execute fails, the exception
\* reaches the caller, the temporary ".download" file is removed and the
\* cached model file and its sidecar are left exactly as they were; the
\* model file is only ever replaced by a completely downloaded file.
C24_FailedDownloadLeavesCache ==
    /\ DownloadFailed =>
            /\ last.ended.error = last.args.faults.download
            /\ TempPath \notin DOMAIN last.ended.files
            /\ Untouched(LocalPath)
            /\ Untouched(SidecarPath)
    /\ ModelRan /\ ~Untouched(LocalPath) =>
            /\ last.ended.error = ""
            /\ last.ended.files[LocalPath] \in CompleteFiles

\* a download that broke off with a part of the file written, over a cached
\* model and its sidecar
C24_Witness ==
    /\ DownloadFailed
    /\ last.args.faults.partial
    /\ LocalPath \in DOMAIN last.files
    /\ SidecarPath \in DOMAIN last.files

\* C25: after any sequence of LoadModelFromCloud.execute calls, whenever the
\* sidecar of a model file exists, its content is the ETag of the object
\* version whose bytes are in the model file.
C25_SidecarMatchesModel ==
    \A path \in DOMAIN models_dir :
        path \o ".s3etag" \in DOMAIN models_dir =>
            models_dir[path \o ".s3etag"] = ETag(models_dir[path])

\* the object LoadImageFromCloud.execute asks the bucket for, given the key
\* and the Configuration of the run
ExecuteRequest ==
    load_image_body(last.config, last.args.key, last.files, last.objs,
                    "ok").requests[1]

\* C26: fingerprint_inputs returns the current ETag of exactly the object
\* (same bucket, same full key) that LoadImageFromCloud.execute downloads
\* for the same key and profile.
C26_FingerprintIsETagOfLoadedObject ==
    /\ StorageRan(FINGERPRINT)
    /\ validate_config(last.config) = ""
    /\ last.args.fault = "ok"
    /\ ExecuteRequest.key \in DOMAIN last.objs
    => last.ended.output = last.objs[ExecuteRequest.key].etag

\* the upload of an image of the batch failed
UploadFailed ==
    last.args.fault # "ok" /\ last.args.fail_at < last.args.count

\* the key of the i-th image of the batch (i from 0)
ImageKey(i) == path_prefix_of(last.config) \o SuppliedPart(i + 1)

\* the images the node has to have sent: all of them, or those up to the
\* one whose upload failed
ImagesSent ==
    IF UploadFailed THEN 0..last.args.fail_at ELSE 0..(last.args.count - 1)

\* C27: SaveImageToCloud.execute uploads the images of a batch in batch
\* order, image i under path_prefix + key_prefix + filename with every
\* "%batch_num%" replaced by i + "." + format, and returns one
\* "s3://bucket/key" entry per image in that order; if the upload of image i
\* fails, a ValueError is raised, no image after i is uploaded and the
\* images before i remain uploaded.
C27_BatchUploadsInOrder ==
    StorageRan(SAVE_IMAGE) /\ validate_config(last.config) = "" =>
        /\ last.ended.requests =
                [n \in 1..Cardinality(ImagesSent) |->
                    Request("put_object", last.config["bucket"],
                            ImageKey(n - 1))]
        /\ IF UploadFailed
           THEN /\ last.ended.error = "ValueError"
                /\ \A i \in 0..(last.args.fail_at - 1) :
                        ImageKey(i) \in DOMAIN last.ended.objs
                /\ \A i \in last.args.fail_at..(last.args.count - 1) :
                        ImageKey(i) \in DOMAIN last.ended.objs
                            => ImageKey(i) \in DOMAIN last.objs
           ELSE /\ last.ended.error = ""
                /\ last.ended.output =
                        [n \in 1..last.args.count |->
                            "s3://" \o last.config["bucket"] \o "/"
                                \o ImageKey(n - 1)]

====
